---- MODULE Spec2Model ----
(***************************************************************************)
(* Model of prefect_flows/pipeline.py: the dq_run flow                     *)
(*   consume_batch -> write_bronze -> validate_df -> write_outputs         *)
(*   -> append_manifest                                                    *)
(* with the data directory (bronze / silver / rejects / gold partitions)   *)
(* and manifests/versions.jsonl as state.                                  *)
(*                                                                         *)
(* Abstractions:                                                           *)
(*  - a text is (leading whitespace, core, trailing whitespace); the core  *)
(*    carries its length, what langdetect.detect answers on it and what    *)
(*    better_profanity answers on it;                                      *)
(*  - None and NaN are one value, Null; str(Null) is the 4-character text  *)
(*    "None";                                                              *)
(*  - a comma-joined failure_reason string is the sequence of its codes;   *)
(*  - the wall clock counts seconds; a UTC date is DayLen seconds long;    *)
(*  - the topic is a set of messages c.poll may deliver, in any order and  *)
(*    any number of times;                                                 *)
(*  - invocations of dq_run are serialized and start in distinct seconds.  *)
(***************************************************************************)
EXTENDS Integers, Sequences, FiniteSets, TLC

VARIABLES
    now,        \* wall clock, in seconds (time.time / utcnow)
    topic,      \* what c.poll may deliver from 'raw_text'
    budget,     \* invocations of dq_run still to come
    pc,         \* position of the current invocation of dq_run
    run_ts,     \* dq_run: run_ts
    start,      \* consume_batch: start
    rows,       \* consume_batch: rows
    df,         \* dq_run: df
    passed,     \* dq_run: passed
    failed,     \* dq_run: failed
    info,       \* dq_run: info
    bronze,     \* data/bronze/run_ts=*
    silver,     \* data/silver/run_ts=*
    rejects,    \* data/rejects/run_ts=*
    gold,       \* data/gold/ds=*
    manifest,   \* manifests/versions.jsonl, one entry per line
    completed,  \* history: run_ts of the invocations that returned, in order
    aborted     \* history: run_ts -> stage at which the invocation raised

vars == <<now, topic, budget, pc, run_ts, start, rows, df, passed, failed, info,
          bronze, silver, rejects, gold, manifest, completed, aborted>>

(***************************************************************************)
(* Bounds                                                                  *)
(***************************************************************************)
MaxMsgs == 2
TimeoutS == 1
DayLen == 2
MaxNow == 3
MaxRuns == 2

(***************************************************************************)
(* Values                                                                  *)
(***************************************************************************)
Null == "Null"

MinTextLen == 20
MaxTextLen == 4000

canonical == {"id", "ts", "text", "source", "domain", "category"}

Text(lead, len, lang, bad, trail) ==
    [lead |-> lead, core |-> [len |-> len, lang |-> lang, prof |-> bad], trail |-> trail]

\* the text column's None / NaN
NullText == Text(0, 0, "null", FALSE, 0)

NullOf(col) == IF col = "text" THEN NullText ELSE Null

\* json.dumps(rec) of the producers' make_record / record_from_text
Rec(id, text, source) ==
    [id |-> id, ts |-> "ts", text |-> text, source |-> source,
     domain |-> "news", category |-> "ai"]

\* the same record without the keys in `without`
Partial(rec, without) == [k \in (DOMAIN rec) \ without |-> rec[k]]

Day(t) == t \div DayLen
RunTsSet == 0..MaxNow
Days == 0..Day(MaxNow)

NoFile == [present |-> FALSE, cols |-> {}, rows |-> <<>>]
NoDir == [exists |-> FALSE, EMPTY |-> FALSE, file |-> NoFile]
NoFrame == [cols |-> {}, rows |-> <<>>]
NoInfo == [run_ts |-> 0, silver_path |-> <<"none", 0>>, rejects_path |-> <<"none", 0>>,
           gold_path |-> <<"none", 0>>, passed |-> 0, rejected |-> 0]

(***************************************************************************)
(* Messages: what c.poll(0.2) returns                                      *)
(***************************************************************************)
None == [kind |-> "None"]
ErrorMsg == [kind |-> "error"]
\* a message whose value is the UTF-8 JSON text of obj
Msg(obj) == [kind |-> "msg", utf8 |-> TRUE, json |-> TRUE, obj |-> obj]
\* a message whose value is not valid UTF-8
BadBytes == [kind |-> "msg", utf8 |-> FALSE, json |-> FALSE, obj |-> [id |-> Null]]
\* a message whose value is UTF-8 text that is no JSON document
BadJson == [kind |-> "msg", utf8 |-> TRUE, json |-> FALSE, obj |-> [id |-> Null]]

\* json.loads(msg.value().decode()): the object, or an exception
Raised == [raised |-> TRUE, obj |-> [id |-> Null]]
loads(msg) ==
    IF ~msg.utf8 THEN Raised          \* UnicodeDecodeError
    ELSE IF ~msg.json THEN Raised     \* json.JSONDecodeError
    ELSE [raised |-> FALSE, obj |-> msg.obj]

(***************************************************************************)
(* DataFrames: a set of columns and a sequence of rows, each with its      *)
(* index label                                                             *)
(***************************************************************************)
Range(s) == {s[i] : i \in DOMAIN s}

\* pd.DataFrame(rows): the columns are the union of the keys, a missing
\* value is NaN, the index is 0..n-1
DataFrame(rs) ==
    LET cols == UNION {DOMAIN rs[i] : i \in DOMAIN rs}
    IN  [cols |-> cols,
         rows |-> [i \in DOMAIN rs |->
                     [idx |-> i - 1,
                      val |-> [c \in cols |->
                                 IF c \in DOMAIN rs[i] THEN rs[i][c] ELSE NullOf(c)]]]]

\* df[col] = None for a column df does not have
AddColumns(d, cols) ==
    [cols |-> d.cols \cup cols,
     rows |-> [i \in DOMAIN d.rows |->
                 [idx |-> d.rows[i].idx,
                  val |-> [c \in d.cols \cup cols |->
                             IF c \in d.cols THEN d.rows[i].val[c] ELSE NullOf(c)]]]]

\* df[cols]
Project(d, cols) ==
    [cols |-> cols,
     rows |-> [i \in DOMAIN d.rows |->
                 [idx |-> d.rows[i].idx, val |-> [c \in cols |-> d.rows[i].val[c]]]]]

empty(d) == Len(d.rows) = 0

\* df.to_parquet(path, index=False)
to_parquet(d) ==
    [present |-> TRUE, cols |-> d.cols,
     rows |-> [i \in DOMAIN d.rows |-> d.rows[i].val]]

(***************************************************************************)
(* validate_df                                                             *)
(***************************************************************************)
\* .astype(str) on the text column: None becomes the text "None"
astype_str(t) == IF t = NullText THEN Text(0, 4, "other", FALSE, 0) ELSE t

\* .str.strip()
strip(t) == [t EXCEPT !.lead = 0, !.trail = 0]

\* .str.len()
str_len(t) == t.lead + t.core.len + t.trail

\* langdetect.detect(s): a language code, or "raise" for LangDetectException
detect(t) == t.core.lang

_is_en(t) == IF detect(t) = "raise" THEN FALSE ELSE detect(t) = "en"

contains_profanity(t) == t.core.prof

between(x, lo, hi) == lo <= x /\ x <= hi

\* the frame when the text is also cut to the longest length allowed
normalized_cut(d) ==
    [cols |-> d.cols \cup {"text_len"},
     rows |-> [i \in DOMAIN d.rows |->
                 LET t0 == strip(astype_str(d.rows[i].val["text"]))
                     t == [t0 EXCEPT !.core.len = IF @ > MaxTextLen THEN MaxTextLen ELSE @]
                 IN  [idx |-> d.rows[i].idx,
                      val |-> [c \in d.cols \cup {"text_len"} |->
                                 IF c = "text" THEN t
                                 ELSE IF c = "text_len" THEN str_len(t)
                                 ELSE d.rows[i].val[c]]]]]

\* df.assign(text=df["text"].astype(str).str.strip()); df["text_len"] = ...
normalized(d) ==
    [cols |-> d.cols \cup {"text_len"},
     rows |-> [i \in DOMAIN d.rows |->
                 LET t == strip(astype_str(d.rows[i].val["text"]))
                 IN  [idx |-> d.rows[i].idx,
                      val |-> [c \in d.cols \cup {"text_len"} |->
                                 IF c = "text" THEN t
                                 ELSE IF c = "text_len" THEN str_len(t)
                                 ELSE d.rows[i].val[c]]]]]

len_ok(r) == between(r.val["text_len"], MinTextLen, MaxTextLen)
lang_ok(r) == _is_en(r.val["text"])
prof(r) == contains_profanity(r.val["text"])

\* df.duplicated with keep=False: every occurrence of a repeated key
dup_ok_none(d, r) ==
    ~\E j \in DOMAIN d.rows :
        /\ d.rows[j].idx # r.idx
        /\ d.rows[j].val["source"] = r.val["source"]
        /\ d.rows[j].val["text"] = r.val["text"]

\* ~df.duplicated(subset=["source","text"], keep='first')
dup_ok(d, r) ==
    ~\E j \in DOMAIN d.rows :
        /\ d.rows[j].idx < r.idx
        /\ d.rows[j].val["source"] = r.val["source"]
        /\ d.rows[j].val["text"] = r.val["text"]

ok(d, r) == len_ok(r) /\ lang_ok(r) /\ ~prof(r) /\ dup_ok(d, r)

\* the list r when each test is an elif of the one before
reason_list_first(d, r) ==
    IF ~len_ok(r) THEN <<"length">>
    ELSE IF ~lang_ok(r) THEN <<"language">>
    ELSE IF prof(r) THEN <<"profanity">>
    ELSE IF ~dup_ok(d, r) THEN <<"duplicate">>
    ELSE <<>>

\* the list r of the loop over failed, before ",".join
reason_list(d, r) ==
    (IF ~len_ok(r) THEN <<"length">> ELSE <<>>) \o
    (IF ~lang_ok(r) THEN <<"language">> ELSE <<>>) \o
    (IF prof(r) THEN <<"profanity">> ELSE <<>>) \o
    (IF ~dup_ok(d, r) THEN <<"duplicate">> ELSE <<>>)

\* ",".join(r) if r else "unknown"
failure_reason(d, r) ==
    IF reason_list(d, r) # <<>> THEN reason_list(d, r) ELSE <<"unknown">>

keep_cols == {"id", "ts", "text", "source", "domain", "category", "text_len"}

\* df[ok]
passed_rows(d) == SelectSeq(d.rows, LAMBDA r : ok(d, r))
\* df[~len_ok]
failed_rows_len(d) == SelectSeq(d.rows, LAMBDA r : ~len_ok(r))
\* df[~ok]
failed_rows(d) == SelectSeq(d.rows, LAMBDA r : ~ok(d, r))

validate_df(d0) ==
    IF empty(d0)
    THEN LET e == [cols |-> d0.cols \cup {"failure_reason"}, rows |-> <<>>]
         IN  [passed |-> e, failed |-> e]
    ELSE LET d == normalized(d0)
             p == [cols |-> d.cols, rows |-> passed_rows(d)]
             f == [cols |-> d.cols \cup {"failure_reason"},
                   rows |-> [i \in DOMAIN failed_rows(d) |->
                               LET r == failed_rows(d)[i]
                               IN  [idx |-> r.idx,
                                    val |-> [c \in d.cols \cup {"failure_reason"} |->
                                               IF c = "failure_reason"
                                               THEN failure_reason(d, r)
                                               ELSE r.val[c]]]]]
         IN  [passed |-> Project(p, keep_cols),
              failed |-> Project(f, keep_cols \cup {"failure_reason"})]

(***************************************************************************)
(* Filesystem helpers                                                      *)
(***************************************************************************)
\* path.mkdir(parents=True, exist_ok=True)
mkdir(dir) == [dir EXCEPT !.exists = TRUE]
\* (path/"EMPTY").touch()
touch(dir) == [dir EXCEPT !.EMPTY = TRUE]
\* writes a parquet file of the directory, replacing the one there
write_file(dir, file) == [dir EXCEPT !.file = file]

\* one partition directory written from a frame: the parquet file, or EMPTY
write_partition(dir, d) ==
    IF ~empty(d) THEN write_file(dir, to_parquet(d)) ELSE touch(dir)

\* the gold file when the copy adds to the one there
gold_merge(old, good) == [good EXCEPT !.rows = old.rows \o good.rows]

\* CREATE TABLE good AS SELECT * FROM read_parquet; CREATE TABLE gold AS
\* SELECT * FROM good; COPY gold TO gold.parquet: the file written over
\* `old`
gold_copy(old, good) == good

\* value_counts().to_dict() of failed["failure_reason"]
value_counts(d) ==
    LET keys == {d.rows[i].val["failure_reason"] : i \in DOMAIN d.rows}
    IN  [k \in keys |->
            Cardinality({i \in DOMAIN d.rows : d.rows[i].val["failure_reason"] = k})]

manifest_entry(inf, fl, bronze_path) ==
    [run_ts |-> inf.run_ts,
     in |-> inf.passed + inf.rejected,
     passed |-> inf.passed,
     rejected |-> inf.rejected,
     reasons |-> IF ~empty(fl) THEN value_counts(fl) ELSE value_counts(NoFrame),
     bronze_path |-> bronze_path,
     silver_path |-> inf.silver_path,
     rejects_path |-> inf.rejects_path,
     gold_path |-> inf.gold_path]

\* the log when the file is opened with "w"
overwrite_line(log, entry) == <<entry>>

\* open(manifests/"versions.jsonl", "a"); f.write(json.dumps(entry)+"\n")
append_line(log, entry) == Append(log, entry)

\* the stage after `stage` when the flow goes on after a failed task
after_anyway(stage, success) ==
    CASE stage = "poll" -> "bronze"
      [] stage = "bronze" -> "validate"
      [] stage = "validate" -> "tier"
      [] stage = "tier" -> "manifest"
      [] stage = "manifest" -> "done"

\* dq_run: the stage after `stage`; an exception of a task ends the flow
after(stage, success) ==
    IF ~success THEN "aborted"
    ELSE CASE stage = "poll" -> "bronze"
           [] stage = "bronze" -> "validate"
           [] stage = "validate" -> "tier"
           [] stage = "tier" -> "manifest"
           [] stage = "manifest" -> "done"

\* the loop condition without the timeout
polling_count(rs, t0, t) == Len(rs) < MaxMsgs

\* while len(rows) < max_msgs and (time.time()-start) < timeout_s
polling(rs, t0, t) == Len(rs) < MaxMsgs /\ (t - t0) < TimeoutS

(***************************************************************************)
(* Actions                                                                 *)
(***************************************************************************)
\* time passes, where the code will look at the clock again: before an
\* invocation of dq_run (run_ts) and in the loop of consume_batch (the
\* timeout, and the date write_outputs reads after it)
Tick ==
    /\ now < MaxNow
    /\ \/ pc = "poll"
       \/ pc \in {"idle", "done", "aborted"} /\ budget > 0
    /\ now' = now + 1
    /\ UNCHANGED <<topic, budget, pc, run_ts, start, rows, df, passed, failed, info,
                   bronze, silver, rejects, gold, manifest, completed, aborted>>

\* dq_run is invoked: run_ts, then consume_batch up to its loop
StartRun ==
    /\ pc \in {"idle", "done", "aborted"}
    /\ budget > 0
    /\ pc = "idle" \/ now > run_ts
    /\ now + TimeoutS <= MaxNow
    /\ budget' = budget - 1
    /\ run_ts' = now
    /\ start' = now
    /\ rows' = <<>>
    /\ df' = NoFrame
    /\ passed' = NoFrame
    /\ failed' = NoFrame
    /\ info' = NoInfo
    /\ pc' = "poll"
    /\ UNCHANGED <<now, topic, bronze, silver, rejects, gold, manifest, completed, aborted>>

\* one iteration of the loop of consume_batch
Poll ==
    /\ pc = "poll"
    /\ polling(rows, start, now)
    /\ \E msg \in topic \cup {None} :
         IF msg.kind \in {"None", "error"}
         THEN UNCHANGED <<pc, rows, aborted>>
         ELSE IF loads(msg).raised
              THEN /\ pc' = after("poll", FALSE)
                   /\ aborted' = aborted \cup {[run_ts |-> run_ts, stage |-> "poll"]}
                   /\ UNCHANGED rows
              ELSE /\ rows' = Append(rows, loads(msg).obj)
                   /\ UNCHANGED <<pc, aborted>>
    /\ UNCHANGED <<now, topic, budget, run_ts, start, df, passed, failed, info,
                   bronze, silver, rejects, gold, manifest, completed>>

\* the loop of consume_batch ends: c.close() and the frame returned
consume_batch ==
    /\ pc = "poll"
    /\ ~polling(rows, start, now)
    /\ df' = IF rows = <<>>
             THEN [cols |-> canonical, rows |-> <<>>]
             ELSE AddColumns(DataFrame(rows), canonical \ DataFrame(rows).cols)
    /\ pc' = after("poll", TRUE)
    /\ UNCHANGED <<now, topic, budget, run_ts, start, rows, passed, failed, info,
                   bronze, silver, rejects, gold, manifest, completed, aborted>>

write_bronze ==
    /\ pc = "bronze"
    /\ \E io_ok \in BOOLEAN :
         /\ bronze' = [bronze EXCEPT ![run_ts] =
                          IF io_ok THEN write_partition(mkdir(@), df) ELSE mkdir(@)]
         /\ pc' = after("bronze", io_ok)
         /\ aborted' = IF io_ok THEN aborted
                       ELSE aborted \cup {[run_ts |-> run_ts, stage |-> "bronze"]}
    /\ UNCHANGED <<now, topic, budget, run_ts, start, rows, df, passed, failed, info,
                   silver, rejects, gold, manifest, completed>>

validate ==
    /\ pc = "validate"
    /\ passed' = validate_df(df).passed
    /\ failed' = validate_df(df).failed
    /\ df' = IF empty(df) THEN validate_df(df).passed ELSE df
    /\ pc' = after("validate", TRUE)
    /\ UNCHANGED <<now, topic, budget, run_ts, start, rows, info,
                   bronze, silver, rejects, gold, manifest, completed, aborted>>

\* write_outputs; `upto` is the last write that succeeded
write_outputs ==
    /\ pc = "tier"
    /\ \E upto \in {"mkdir", "silver", "rejects", "gold"} :
         LET ds == Day(now)
             s1 == IF upto = "mkdir" THEN mkdir(silver[run_ts])
                   ELSE write_partition(mkdir(silver[run_ts]), passed)
             r1 == IF upto \in {"mkdir", "silver"} THEN mkdir(rejects[run_ts])
                   ELSE write_partition(mkdir(rejects[run_ts]), failed)
             g1 == IF upto # "gold" THEN gold[ds]
                   ELSE IF s1.file.present
                        THEN write_file(mkdir(gold[ds]), gold_copy(gold[ds].file, s1.file))
                        ELSE mkdir(gold[ds])
         IN  /\ silver' = [silver EXCEPT ![run_ts] = s1]
             /\ rejects' = [rejects EXCEPT ![run_ts] = r1]
             /\ gold' = [gold EXCEPT ![ds] = g1]
             /\ info' = IF upto # "gold" THEN info
                        ELSE [run_ts |-> run_ts,
                              silver_path |-> <<"silver", run_ts>>,
                              rejects_path |-> <<"rejects", run_ts>>,
                              gold_path |-> <<"gold", ds>>,
                              passed |-> Len(passed.rows),
                              rejected |-> Len(failed.rows)]
             /\ pc' = after("tier", upto = "gold")
             /\ aborted' = IF upto = "gold" THEN aborted
                           ELSE aborted \cup {[run_ts |-> run_ts, stage |-> "tier"]}
    /\ UNCHANGED <<now, topic, budget, run_ts, start, rows, df, passed, failed,
                   bronze, manifest, completed>>

append_manifest ==
    /\ pc = "manifest"
    /\ \E io_ok \in BOOLEAN :
         /\ manifest' = IF io_ok
                        THEN append_line(manifest,
                                 manifest_entry(info, failed, <<"bronze", run_ts>>))
                        ELSE manifest
         /\ pc' = after("manifest", io_ok)
         /\ completed' = IF io_ok THEN Append(completed, run_ts) ELSE completed
         /\ aborted' = IF io_ok THEN aborted
                       ELSE aborted \cup {[run_ts |-> run_ts, stage |-> "manifest"]}
    /\ UNCHANGED <<now, topic, budget, run_ts, start, rows, df, passed, failed, info,
                   bronze, silver, rejects, gold>>

Next ==
    \/ Tick
    \/ StartRun
    \/ Poll
    \/ consume_batch
    \/ write_bronze
    \/ validate
    \/ write_outputs
    \/ append_manifest

(***************************************************************************)
(* Topics and specifications                                               *)
(***************************************************************************)
Fine == Text(0, 20, "en", FALSE, 0)

\* two clean records, with broken messages among them
MixedTopic ==
    {Msg(Rec("a", Fine, "web")), Msg(Rec("c", Fine, "doc")), ErrorMsg, BadJson, BadBytes}

InitWith(tp, n) ==
    /\ now = 0
    /\ topic = tp
    /\ budget = n
    /\ pc = "idle"
    /\ run_ts = 0
    /\ start = 0
    /\ rows = <<>>
    /\ df = NoFrame
    /\ passed = NoFrame
    /\ failed = NoFrame
    /\ info = NoInfo
    /\ bronze = [t \in RunTsSet |-> NoDir]
    /\ silver = [t \in RunTsSet |-> NoDir]
    /\ rejects = [t \in RunTsSet |-> NoDir]
    /\ gold = [d \in Days |-> NoDir]
    /\ manifest = <<>>
    /\ completed = <<>>
    /\ aborted = {}

Init == InitWith(MixedTopic, MaxRuns)

Spec == Init /\ [][Next]_vars

\* one invocation; the wall clock advances, and a loop whose condition is
\* false is left
InitLive == InitWith(MixedTopic, 1)

SpecLive == InitLive /\ [][Next]_vars /\ WF_vars(Tick) /\ WF_vars(consume_batch)

\* a text, the same text after a blank and the same text from another
\* source, in two invocations
DupTopic ==
    {Msg(Rec("a", Fine, "web")), Msg(Rec("b", Text(1, MinTextLen, "en", FALSE, 0), "web")),
     Msg(Rec("c", Fine, "doc"))}

InitDup == InitWith(DupTopic, 2)

SpecDup == InitDup /\ [][Next]_vars

\* texts with blanks around them, a text that is too long and a record
\* without text and domain, in one invocation
CopyTopic ==
    {Msg(Rec("a", Fine, "web")), Msg(Rec("b", Text(1, MinTextLen, "en", FALSE, 0), "web")),
     Msg(Rec("d", Text(0, MaxTextLen + 1, "en", FALSE, 1), "web")),
     Msg(Partial(Rec("e", Fine, "web"), {"text", "domain"}))}

InitCopy == InitWith(CopyTopic, 1)

SpecCopy == InitCopy /\ [][Next]_vars

\* every combination of the three per-record rules, both ends of the
\* length window and a text langdetect gives up on, in one invocation
RuleLens == {MinTextLen - 1, MinTextLen}
RuleLangs == {"en", "other"}
RuleTopic ==
    {Msg(Rec("a", Text(0, n, g, b, 0), "web")) : n \in RuleLens, g \in RuleLangs, b \in BOOLEAN}
    \cup {Msg(Rec("a", Text(0, MaxTextLen, "en", FALSE, 0), "web")),
          Msg(Rec("a", Text(0, MaxTextLen + 1, "en", FALSE, 0), "web")),
          Msg(Rec("a", Text(0, MinTextLen, "raise", FALSE, 0), "web"))}

InitRules == InitWith(RuleTopic, 1)

SpecRules == InitRules /\ [][Next]_vars

(***************************************************************************)
(* Properties                                                              *)
(***************************************************************************)
\* the invocation is past validate_df
Validated == pc \in {"tier", "manifest", "done"}

Indexes(d) == {d.rows[i].idx : i \in DOMAIN d.rows}

\* the number of records of a partition directory
Records(dir) == IF dir.file.present THEN Len(dir.file.rows) ELSE 0

\* C1: every record of the batch is in exactly one of passed and failed, and
\* every manifest entry has passed + rejected = in = the number of records
\* of the bronze partition of its run.
C1_Partition ==
    /\ Validated =>
         /\ Indexes(passed) \cup Indexes(failed) = Indexes(df)
         /\ Indexes(passed) \cap Indexes(failed) = {}
         /\ Cardinality(Indexes(passed)) = Len(passed.rows)
         /\ Cardinality(Indexes(failed)) = Len(failed.rows)
         /\ Len(passed.rows) + Len(failed.rows) = Len(df.rows)
    /\ \A i \in DOMAIN manifest :
         /\ manifest[i].passed + manifest[i].rejected = manifest[i].in
         /\ manifest[i].in = Records(bronze[manifest[i].run_ts])

C1_Witness ==
    /\ pc = "done"
    /\ manifest # <<>>
    /\ manifest[1].passed = 1
    /\ manifest[1].rejected = 1
    /\ \E i \in DOMAIN failed.rows : failed.rows[i].val["failure_reason"] = <<"language">>

\* what the rules see of a text: its core, and the text "None" for a
\* missing one
Seen(t) == IF t.core.lang = "null" THEN [len |-> 4, lang |-> "other", prof |-> FALSE] ELSE t.core

\* batch record i comes after a record of its batch with the same source and
\* the same text as the rules see it
Repeats(i) ==
    \E j \in 1..(i - 1) :
        /\ df.rows[j].val["source"] = df.rows[i].val["source"]
        /\ Seen(df.rows[j].val["text"]) = Seen(df.rows[i].val["text"])

\* the rules batch record i violates
Violations(i) ==
    LET t == Seen(df.rows[i].val["text"])
    IN  (IF t.len < 20 \/ t.len > 4000 THEN {"length"} ELSE {}) \cup
        (IF t.lang # "en" THEN {"language"} ELSE {}) \cup
        (IF t.prof THEN {"profanity"} ELSE {}) \cup
        (IF Repeats(i) THEN {"duplicate"} ELSE {})

\* the failure_reason validate_df gave batch record i, as a set of codes
ReasonsOf(i) ==
    UNION {Range(failed.rows[k].val["failure_reason"]) :
             k \in {k \in DOMAIN failed.rows : failed.rows[k].idx = i - 1}}

\* C6: a record is in passed iff it violates none of the four rules; the
\* reasons of a failed record are exactly the rules it violates, never empty
\* and never unknown; text_len outside [20, 4000] always gives length.
C6_Rules ==
    Validated =>
        \A i \in DOMAIN df.rows :
            LET n == Seen(df.rows[i].val["text"]).len
            IN  /\ (i - 1) \in Indexes(passed) <=> Violations(i) = {}
                /\ (i - 1) \in Indexes(failed) <=> Violations(i) # {}
                /\ ReasonsOf(i) = Violations(i)
                /\ "unknown" \notin ReasonsOf(i)
                /\ (n < 20 \/ n > 4000) => "length" \in ReasonsOf(i)

C6_Witness ==
    /\ pc = "done"
    /\ \E k \in DOMAIN failed.rows :
         failed.rows[k].val["failure_reason"] = <<"length", "language", "profanity">>
    /\ \E k \in DOMAIN failed.rows :
         failed.rows[k].val["failure_reason"] = <<"length", "language", "profanity", "duplicate">>

ReasonCodes == {"length", "language", "profanity", "duplicate", "unknown"}

\* C5: every key of a manifest entry's reasons is one reason code, and its
\* value is the number of failed records of the run whose reasons include
\* that code.
C5_ReasonCodes ==
    pc = "done" =>
        LET e == manifest[Len(manifest)]
        IN  /\ \A k \in DOMAIN e.reasons :
                 /\ Len(k) = 1
                 /\ k[1] \in ReasonCodes
                 /\ e.reasons[k] =
                      Cardinality({j \in DOMAIN failed.rows :
                                     k[1] \in Range(failed.rows[j].val["failure_reason"])})
            /\ \A c \in ReasonCodes :
                 (\E j \in DOMAIN failed.rows :
                     c \in Range(failed.rows[j].val["failure_reason"]))
                 => <<c>> \in DOMAIN e.reasons

\* C2: a malformed or undecodable message is skipped without an error: no
\* invocation raises in consume_batch.
C2_MalformedSkipped == \A a \in aborted : a.stage # "poll"

\* C3: the manifest holds one entry per completed invocation, in the order
\* they completed, and a step only ever appends to it.
C3_AppendOnly ==
    /\ [](/\ Len(manifest) = Len(completed)
          /\ \A i \in DOMAIN manifest : manifest[i].run_ts = completed[i])
    /\ [][/\ Len(manifest') >= Len(manifest)
          /\ \A i \in DOMAIN manifest : manifest'[i] = manifest[i]]_vars

C3_Witness ==
    /\ pc = "done"
    /\ Len(manifest) = 2
    /\ manifest[1].run_ts < manifest[2].run_ts
    /\ manifest[1].reasons # manifest[2].reasons

\* the records of a gold partition
GoldRows(d) == IF gold[d].file.present THEN gold[d].file.rows ELSE <<>>

\* C4 as stated: after an invocation completes, the gold partition of its
\* date holds exactly its passed records.
C4_GoldIsThisRun ==
    (pc = "done" /\ aborted = {}) =>
        GoldRows(info.gold_path[2]) = [k \in DOMAIN passed.rows |-> passed.rows[k].val]

\* C4 amended: a write_outputs that succeeds with passed records replaces
\* the gold file of the date it reads by exactly these records; with no
\* passed records, and in every other step, every gold file stays as it is.
C4_GoldReplaced ==
    [][IF pc = "tier" /\ pc' = "manifest" /\ passed.rows # <<>>
       THEN /\ gold'[now \div DayLen].file.present
            /\ gold'[now \div DayLen].file.rows =
                 [k \in DOMAIN passed.rows |-> passed.rows[k].val]
            /\ \A d \in DOMAIN gold : d # now \div DayLen => gold'[d] = gold[d]
       ELSE \A d \in DOMAIN gold : gold'[d].file = gold[d].file]_vars

\* a second invocation of the day without passed records completed, and the
\* gold partition still holds the records of the first
C4_Witness ==
    /\ pc = "done"
    /\ Len(manifest) = 2
    /\ manifest[1].gold_path = manifest[2].gold_path
    /\ manifest[1].passed = 2
    /\ manifest[2].passed = 0
    /\ Len(GoldRows(info.gold_path[2])) = 2

Written(dir) == dir.EMPTY \/ dir.file.present

Kept(a, b) ==
    /\ a.exists => b.exists
    /\ a.EMPTY => b.EMPTY
    /\ a.file.present => b.file.present

InManifest(t) == \E i \in DOMAIN manifest : manifest[i].run_ts = t

\* C9: the stages of an invocation happen in order, each after the one
\* before succeeded; an invocation that raised never gets a manifest entry,
\* and what it wrote stays as it left it.
C9_Order ==
    /\ [](/\ \A a \in aborted : ~InManifest(a.run_ts)
          /\ pc \in {"poll", "bronze"} => ~bronze[run_ts].exists
          /\ pc \in {"poll", "bronze", "validate", "tier"} =>
               /\ ~silver[run_ts].exists
               /\ ~rejects[run_ts].exists
               /\ ~InManifest(run_ts)
          /\ pc \in {"validate", "tier", "manifest", "done"} => Written(bronze[run_ts])
          /\ pc \in {"manifest", "done"} =>
               /\ Written(silver[run_ts])
               /\ Written(rejects[run_ts])
               /\ gold[info.gold_path[2]].exists
          /\ InManifest(run_ts) => pc = "done")
    /\ [][/\ \A t \in DOMAIN bronze :
               /\ Kept(bronze[t], bronze'[t])
               /\ Kept(silver[t], silver'[t])
               /\ Kept(rejects[t], rejects'[t])
          /\ \A d \in DOMAIN gold : Kept(gold[d], gold'[d])
          /\ \A a \in aborted :
               /\ bronze'[a.run_ts] = bronze[a.run_ts]
               /\ silver'[a.run_ts] = silver[a.run_ts]
               /\ rejects'[a.run_ts] = rejects[a.run_ts]
          /\ pc = "aborted" => pc' = "aborted" \/ (pc' = "poll" /\ run_ts' # run_ts)
          /\ pc' = "aborted" => manifest' = manifest]_vars

\* write_outputs raised after the silver write, in the second invocation
C9_Witness ==
    /\ pc = "aborted"
    /\ [run_ts |-> run_ts, stage |-> "tier"] \in aborted
    /\ bronze[run_ts].file.present
    /\ silver[run_ts].file.present
    /\ rejects[run_ts].exists
    /\ ~Written(rejects[run_ts])
    /\ Len(manifest) = 1

\* C10: consume_batch terminates; it polls only while fewer than max_msgs
\* records are there and the timeout has not elapsed; the batch has at most
\* max_msgs records and the canonical columns, also when it is empty.
C10_IntakeBounded ==
    /\ [](/\ Len(rows) <= MaxMsgs
          /\ pc = "bronze" =>
               /\ Len(rows) = MaxMsgs \/ now - start >= TimeoutS
               /\ Len(df.rows) = Len(rows)
               /\ canonical \subseteq df.cols
               /\ rows = <<>> => df = [cols |-> canonical, rows |-> <<>>])
    /\ [][(pc = "poll" /\ (Len(rows) >= MaxMsgs \/ now - start >= TimeoutS)) =>
             /\ rows' = rows
             /\ pc' \in {"poll", "bronze"}]_vars
    /\ (pc = "poll" ~> pc # "poll")

\* the queue gave nothing and the timeout ended the loop
C10_Witness ==
    /\ pc = "bronze"
    /\ rows = <<>>
    /\ now - start >= TimeoutS
    /\ empty(df)

\* batch record i comes after a record of its batch with the same source and
\* the same text as received
RawRepeats(i) ==
    \E j \in 1..(i - 1) :
        /\ df.rows[j].val["source"] = df.rows[i].val["source"]
        /\ df.rows[j].val["text"] = df.rows[i].val["text"]

\* C7 as stated: a record has duplicate among its reasons iff an earlier
\* record of its batch has the same (source, text), the text as received.
C7_DuplicateRaw ==
    Validated =>
        \A i \in DOMAIN df.rows : "duplicate" \in ReasonsOf(i) <=> RawRepeats(i)

\* C7 amended: a record has duplicate among its reasons iff an earlier
\* record of its batch has the same source and the same text once both are
\* made strings and stripped; the records of earlier invocations never count.
C7_DuplicateStripped ==
    Validated =>
        \A i \in DOMAIN df.rows : "duplicate" \in ReasonsOf(i) <=> Repeats(i)

\* the second invocation passes a record the first one passed too, and
\* rejects the same text with a blank before it as a duplicate
C7_Witness ==
    /\ pc = "done"
    /\ Len(completed) = 2
    /\ silver[completed[1]].file.present
    /\ silver[completed[1]].file.rows[1]["id"] = "a"
    /\ Len(passed.rows) = 1
    /\ passed.rows[1].val["id"] = "a"
    /\ Len(failed.rows) = 1
    /\ failed.rows[1].val["id"] = "b"
    /\ failed.rows[1].val["failure_reason"] = <<"duplicate">>

\* the bronze copy of the record with index label n
BronzeRow(n) == bronze[run_ts].file.rows[n + 1]

SameButStripped(out, raw) ==
    /\ \A c \in canonical \ {"text"} : out[c] = raw[c]
    /\ out["text"].lead = 0
    /\ out["text"].trail = 0
    /\ out["text"].core = Seen(raw["text"])

====
